---- MODULE Spec2Model ----
(***************************************************************************)
(* The migration-step engine of fs-repo-migrations: the 8-to-9 step        *)
(* (key-transform pipeline with a backup log, Apply and Revert) and the    *)
(* 1-to-2 step (bulk transfer between two stores).  A repository is at one *)
(* version; invocations of the steps run as separate processes.            *)
(***************************************************************************)
EXTENDS Integers, Sequences, FiniteSets, TLC

\* ------------------------------------------------------------------ bounds
\* number of step invocations (processes started) in one behaviour
MaxRuns == 3
\* number of injected I/O failures in one behaviour
MaxFaults == 1
\* size of the CidSwapper worker pool
NWorkers == 2
\* capacity of swapCh / unswapCh, make(chan Swap, 1000), scaled down
SwapChCap == 2
\* capacity of the bufio.Writer in backup lines (4096 bytes), scaled down
BufSize == 2

Procs == {1, 2}
Workers == 1 .. NWorkers

None == "none"

\* ------------------------------------------------- the /blocks namespace
\* Keys of the /blocks namespace: CIDv1 keys (c1a and c1b are two CIDs of
\* the same multihash with different codecs), and raw-multihash keys.
Keys == {"c1a", "c1b", "c2", "mh1", "mh2"}

\* the key mapping of the swapper: CIDv1 -> raw multihash, a no-op on keys
\* that already are multihashes
f(k) ==
  CASE k = "c1a" -> "mh1"
    [] k = "c1b" -> "mh1"
    [] k = "c2" -> "mh2"
    [] OTHER -> k

\* blocks are content addressed: the value is the content of the multihash
Content(k) == IF f(k) = "mh1" THEN "v1" ELSE "v2"

Swap(old, new) == <<old, new>>

\* ------------------------------------------------- 1-to-2: keys and stores
\* A key is the sequence of its characters.
Slash == "/"
PrefB == <<"/", "b", "/">>
KeyBX == <<"/", "b", "/", "x">>
KeyBY == <<"/", "b", "/", "y">>
KeyC == <<"/", "c">>

HasPrefix(k, pre) == Len(k) >= Len(pre) /\ SubSeq(k, 1, Len(pre)) = pre

\* path.Clean on a rooted key: no empty component, no trailing slash
RECURSIVE Clean(_)
Clean(s) ==
  IF Len(s) <= 1 THEN s
  ELSE IF s[1] = Slash /\ s[2] = Slash THEN Clean(Tail(s))
  ELSE IF Len(s) = 2 /\ s[2] = Slash THEN <<s[1]>>
  ELSE <<s[1]>> \o Clean(Tail(s))

\* dstore.NewKey: the key is rooted and cleaned
NewKey(s) ==
  IF s = <<>> THEN <<Slash>>
  ELSE IF s[1] # Slash THEN Clean(<<Slash>> \o s)
  ELSE Clean(s)

\* mutant: the target prefix is left out of the new key
NKeyNoPrefix(key, fpref, tpref) == SubSeq(key, Len(fpref) + 1, Len(key))

\* nkey := fmt.Sprintf("%s%s", tpref, result.Key[len(fpref):])
NKey(key, fpref, tpref) == tpref \o SubSeq(key, Len(fpref) + 1, Len(key))

\* a datastore is a set of <<key, value>> with one value per key
DsKeys(s) == {e[1] : e \in s}
DsHas(s, k) == k \in DsKeys(s)
DsGet(s, k) == (CHOOSE e \in s : e[1] = k)[2]
DsPut(s, k, v) == {e \in s : e[1] # k} \cup {<<k, v>>}
DsDelete(s, k) == {e \in s : e[1] # k}
\* Query{Prefix: pre, KeysOnly: true}
DsQuery(s, pre) == {k \in DsKeys(s) : HasPrefix(k, pre)}

\* strings.Replace(path, ".go-ipfs", ".ipfs", 1) and its reverse
ToIpfs(p) == IF p = ".go-ipfs" THEN ".ipfs" ELSE p
ToGoIpfs(p) == IF p = ".ipfs" THEN ".go-ipfs" ELSE p

VARIABLES
  version,      \* the version marker of the repo ("1", "2", "8", "9")
  lockHolder,   \* the process holding repo.lock, 0 when free
  blocks,       \* the /blocks namespace: key -> value or None
  backup,       \* 8-to-9-cids.txt: [exists, lines]
  pc,           \* position of each invocation
  op,           \* the step each process runs
  ret,          \* the error the invocation is returning (deferred calls run)
  result,       \* what the last invocation of the process returned
  resultsCh,    \* CidSwapper.Run: keys of the query not yet handed out
  wk,           \* per worker: [st, key, val]
  nErrors,      \* runWorkers: sum of the workers' error counts
  total,        \* runWorkers: the swaps performed by this run
  runErr,       \* Run/Revert returned an error
  swapCh,       \* Apply: the queue of swap records
  chClosed,     \* swapCh is closed
  buf,          \* Apply: the bufio.Writer's buffer
  fOpen,        \* the backup file handle f is open
  writingDone,  \* Apply: the writer goroutine has finished
  unswapCh,     \* Revert: the queue of records to undo
  unswapClosed, \* unswapCh is closed
  scanPos,      \* Revert: lines the scanner has consumed
  ldb,          \* 1-to-2: the leveldb datastore, a set of <<key, value>>
  fds,          \* 1-to-2: the flatfs datastore under blocks/
  blocksDir,    \* 1-to-2: the directory blocks/ exists
  repoDir,      \* the directory the repo is in (".go-ipfs" or ".ipfs")
  path,         \* 1-to-2: opts.Path, then the moved path, per invocation
  tq,           \* transferBlocks: results of the query still to come
  tb,           \* transferBlocks: [st, key, val] of the loop body
  runs,         \* invocations so far
  snap,         \* history: the repo as it was when the invocation started
  trip,         \* history: [phase, S] of an Apply followed by a Revert
  disk0,        \* history: the repo as it was initially
  fsnap,        \* history: the failures so far when the invocation started
  faults        \* injected failures so far

repoVars == <<version, lockHolder, blocks, backup>>
ctlVars == <<pc, op, ret, result>>
swapperVars == <<resultsCh, wk, nErrors, total, runErr>>
applyVars == <<swapCh, chClosed, buf, fOpen, writingDone>>
revertVars0 == <<unswapCh, unswapClosed, scanPos>>
diskVars == <<ldb, fds, blocksDir, repoDir>>
bulkVars == <<path, tq, tb>>
revertVars == <<revertVars0, diskVars, bulkVars>>
histVars == <<runs, snap, trip, disk0, fsnap>>
vars == <<repoVars, ctlVars, swapperVars, applyVars, revertVars, histVars, faults>>

\* the repo on disk
Disk ==
  [version |-> version, blocks |-> blocks, backup |-> backup, ldb |-> ldb,
   fds |-> fds, blocksDir |-> blocksDir, repoDir |-> repoDir]

IsApply(o) == o \in {"Apply", "Apply12"}
Family(o) == IF o \in {"Apply", "Revert"} THEN "8-to-9" ELSE "1-to-2"

\* history of round trips: a successful Apply directly followed by a Revert of
\* the same step
TripStart(o) ==
  IF trip.phase = "applied" /\ ~IsApply(o) /\ Family(o) = trip.step
    THEN [trip EXCEPT !.phase = "reverting"]
    ELSE [phase |-> "none", step |-> None, S |-> None]

TripReturn(p) ==
  IF IsApply(op[p]) /\ ret[p] = "ok"
    THEN [phase |-> "applied", step |-> Family(op[p]), S |-> snap[p]]
  ELSE IF trip.phase = "reverting" /\ ret[p] = "ok"
    THEN [trip EXCEPT !.phase = "reverted"]
  ELSE [phase |-> "none", step |-> None, S |-> None]

Started(p, o) ==
  /\ runs' = runs + 1
  /\ snap' = [snap EXCEPT ![p] = Disk]
  /\ trip' = TripStart(o)
  /\ fsnap' = [fsnap EXCEPT ![p] = faults]
  /\ UNCHANGED disk0

Returned(p) ==
  /\ snap' = [snap EXCEPT ![p] = None]
  /\ trip' = TripReturn(p)
  /\ fsnap' = [fsnap EXCEPT ![p] = 0]
  /\ UNCHANGED <<runs, disk0>>


IdleTransfer == [st |-> "next", key |-> <<>>, val |-> None]

IdleWorker == [st |-> "idle", old |-> None, new |-> None, val |-> None]

NoFault == faults' = faults
Fault == faults < MaxFaults /\ faults' = faults + 1

\* ------------------------------------------------------------------ Init
StoreOf(S) == [k \in Keys |-> IF k \in S THEN Content(k) ELSE None]

InitStores == {StoreOf(S) : S \in SUBSET {"c1a", "c1b", "c2", "mh1"}}

NoBlocks == StoreOf({})

LdbOf(S) ==
  {<<KeyBX, "v1">>, <<KeyBY, "v2">>, <<KeyC, "v3">>} \cap (S \X {"v1", "v2", "v3"})

InitLdbs == {LdbOf(S) : S \in SUBSET {KeyBX, KeyBY, KeyC}}

\* backup files of a repo migrated to version 9 from the store {c1a, c2},
\* in which a line has been damaged since: a line without a comma between
\* two records, and a record with a third field before a good record
DamagedFiles ==
  {<<Swap("c1a", "mh1"), <<"c1a">>, Swap("c2", "mh2")>>,
   <<<<"c2", "mh2", "c2">>, Swap("c1a", "mh1")>>}

\* a repo at version 8 with its /blocks namespace, or a repo at version 1
\* with its leveldb datastore, or a repo migrated to version 9 with its
\* backup file
InitRepo(stores, ldbs, files) ==
  /\ lockHolder = 0
  /\ fds = {}
  /\ blocksDir = FALSE
  /\ \/ /\ version = "8"
        /\ blocks \in stores
        /\ backup = [exists |-> FALSE, lines |-> <<>>]
        /\ ldb = {}
        /\ repoDir = ".ipfs"
     \/ /\ version = "1"
        /\ blocks = NoBlocks
        /\ backup = [exists |-> FALSE, lines |-> <<>>]
        /\ ldb \in ldbs
        /\ repoDir = ".go-ipfs"
     \/ /\ version = "9"
        /\ blocks = StoreOf({"mh1", "mh2"})
        /\ backup \in {[exists |-> TRUE, lines |-> ls] : ls \in files}
        /\ ldb = {}
        /\ repoDir = ".ipfs"

InitProcs ==
  /\ op = [p \in Procs |-> None]
  /\ ret = [p \in Procs |-> None]
  /\ result = [p \in Procs |-> None]
  /\ resultsCh = [p \in Procs |-> {}]
  /\ wk = [p \in Procs |-> [w \in Workers |-> IdleWorker]]
  /\ nErrors = [p \in Procs |-> 0]
  /\ total = [p \in Procs |-> {}]
  /\ runErr = [p \in Procs |-> FALSE]
  /\ swapCh = [p \in Procs |-> <<>>]
  /\ chClosed = [p \in Procs |-> FALSE]
  /\ buf = [p \in Procs |-> <<>>]
  /\ fOpen = [p \in Procs |-> FALSE]
  /\ writingDone = [p \in Procs |-> FALSE]
  /\ unswapCh = [p \in Procs |-> <<>>]
  /\ unswapClosed = [p \in Procs |-> FALSE]
  /\ scanPos = [p \in Procs |-> 0]
  /\ path = [p \in Procs |-> None]
  /\ tq = [p \in Procs |-> {}]
  /\ tb = [p \in Procs |-> IdleTransfer]
  /\ runs = 0
  /\ snap = [p \in Procs |-> None]
  /\ fsnap = [p \in Procs |-> 0]
  /\ trip = [phase |-> "none", step |-> None, S |-> None]
  /\ faults = 0

\* invocations run one at a time
Init ==
  /\ InitRepo(InitStores, InitLdbs, DamagedFiles)
  /\ disk0 = Disk
  /\ InitProcs
  /\ pc = [p \in Procs |-> IF p = 1 THEN "idle" ELSE "off"]

\* invocations of two processes overlap
InitPar ==
  /\ InitRepo({StoreOf({"c1a"})}, {LdbOf({KeyBX})}, {})
  /\ disk0 = Disk
  /\ InitProcs
  /\ pc = [p \in Procs |-> "idle"]

\* --------------------------------------------------- control-flow helpers
Goto(p, l) == pc' = [pc EXCEPT ![p] = l]

\* return err: the invocation leaves through its deferred calls from l on
ReturnErr(p, e, l) ==
  /\ ret' = [ret EXCEPT ![p] = e]
  /\ pc' = [pc EXCEPT ![p] = l]

Expected(o) == IF o = "Apply" THEN "8" ELSE "9"

\* ------------------------------------------------ 8-to-9: lock and version
\* the goroutines and channels of an invocation die with its process
ProcessExit(p) ==
  /\ resultsCh' = [resultsCh EXCEPT ![p] = {}]
  /\ wk' = [wk EXCEPT ![p] = [w \in Workers |-> IdleWorker]]
  /\ nErrors' = [nErrors EXCEPT ![p] = 0]
  /\ total' = [total EXCEPT ![p] = {}]
  /\ runErr' = [runErr EXCEPT ![p] = FALSE]
  /\ swapCh' = [swapCh EXCEPT ![p] = <<>>]
  /\ chClosed' = [chClosed EXCEPT ![p] = FALSE]
  /\ buf' = [buf EXCEPT ![p] = <<>>]
  /\ fOpen' = [fOpen EXCEPT ![p] = FALSE]
  /\ writingDone' = [writingDone EXCEPT ![p] = FALSE]
  /\ unswapCh' = [unswapCh EXCEPT ![p] = <<>>]
  /\ unswapClosed' = [unswapClosed EXCEPT ![p] = FALSE]
  /\ scanPos' = [scanPos EXCEPT ![p] = 0]
  /\ path' = [path EXCEPT ![p] = None]
  /\ tq' = [tq EXCEPT ![p] = {}]
  /\ tb' = [tb EXCEPT ![p] = IdleTransfer]

\* m.lock(opts): lock.Lock2 fails when another process holds the lock
Lock(p, o) ==
  /\ pc[p] = "idle"
  /\ op' = [op EXCEPT ![p] = o]
  /\ IF lockHolder = 0
       THEN /\ runs < MaxRuns
            /\ Started(p, o)
            /\ lockHolder' = p
            /\ pc' = [pc EXCEPT ![p] = "checkver"]
            /\ ret' = [ret EXCEPT ![p] = None]
            /\ result' = [result EXCEPT ![p] = None]
       ELSE /\ result' = [result EXCEPT ![p] = "LockError"]
            /\ UNCHANGED <<lockHolder, pc, ret, histVars>>
  /\ UNCHANGED <<version, blocks, backup, swapperVars, applyVars, revertVars,
                 faults>>

\* mutant: the error of CheckVersion is not returned
CheckVersionIgnored(p) ==
  /\ pc[p] = "checkver"
  /\ Goto(p, "open")
  /\ UNCHANGED <<repoVars, op, ret, result, swapperVars, applyVars, revertVars,
                 histVars, faults>>

\* repo.CheckVersion("8") in Apply, repo.CheckVersion("9") in Revert
CheckVersion(p) ==
  /\ pc[p] = "checkver"
  /\ IF version # Expected(op[p])
       THEN ReturnErr(p, "VersionMismatchError", "unlock")
       ELSE Goto(p, "open") /\ UNCHANGED ret
  /\ UNCHANGED <<repoVars, op, result, swapperVars, applyVars, revertVars,
                 histVars, faults>>

\* m.open(opts): the datastore of the repo, or an error
Open(p) ==
  /\ pc[p] = "open"
  /\ \/ /\ Goto(p, IF op[p] = "Apply" THEN "openfile" ELSE "openbackup")
        /\ UNCHANGED ret
        /\ NoFault
     \/ /\ ReturnErr(p, "StoreOpenError", "unlock")
        /\ Fault
  /\ UNCHANGED <<repoVars, op, result, swapperVars, applyVars, revertVars, histVars>>

\* ----------------------------------------------------------- 8-to-9 Apply
\* mutant: the backup file is truncated when it is opened
OpenFileTrunc(p) ==
  /\ pc[p] = "openfile"
  /\ backup' = [exists |-> TRUE, lines |-> <<>>]
  /\ fOpen' = [fOpen EXCEPT ![p] = TRUE]
  /\ Goto(p, "run")
  /\ UNCHANGED <<version, lockHolder, blocks, op, ret, result, swapperVars,
                 swapCh, chClosed, buf, writingDone, revertVars, histVars,
                 faults>>

\* mutant: the backup file is created exclusively, an existing one is an
\* error
OpenFileExcl(p) ==
  /\ pc[p] = "openfile"
  /\ IF backup.exists
       THEN /\ ReturnErr(p, "BackupOpenError", "dsclose")
            /\ UNCHANGED <<backup, fOpen>>
       ELSE /\ backup' = [backup EXCEPT !.exists = TRUE]
            /\ fOpen' = [fOpen EXCEPT ![p] = TRUE]
            /\ Goto(p, "run")
            /\ UNCHANGED ret
  /\ UNCHANGED <<version, lockHolder, blocks, op, result, swapperVars,
                 swapCh, chClosed, buf, writingDone, revertVars, histVars,
                 faults>>

\* os.Stat and os.OpenFile(O_WRONLY|O_APPEND|O_CREATE) of the backup file,
\* bufio.NewWriter, make(chan Swap), and the start of the writer goroutine
OpenFile(p) ==
  /\ pc[p] = "openfile"
  /\ \/ /\ backup' = [backup EXCEPT !.exists = TRUE]
        /\ fOpen' = [fOpen EXCEPT ![p] = TRUE]
        /\ Goto(p, "run")
        /\ UNCHANGED ret
        /\ NoFault
     \/ /\ ReturnErr(p, "BackupOpenError", "dsclose")
        /\ UNCHANGED <<backup, fOpen>>
        /\ Fault
  /\ UNCHANGED <<version, lockHolder, blocks, op, result, swapperVars,
                 swapCh, chClosed, buf, writingDone, revertVars, histVars>>

\* bufio.Writer.Write of one line: a full buffer is written to the file
\* first; a write to a closed file fails and the line is dropped
BufWrite(p, line) ==
  IF Len(buf[p]) < BufSize
    THEN /\ buf' = [buf EXCEPT ![p] = Append(@, line)]
         /\ UNCHANGED backup
    ELSE IF fOpen[p]
      THEN /\ backup' = [backup EXCEPT !.lines = @ \o buf[p]]
           /\ buf' = [buf EXCEPT ![p] = <<line>>]
      ELSE UNCHANGED <<backup, buf>>

WriterAlive(p) ==
  /\ op[p] = "Apply"
  /\ pc[p] \in {"run", "running", "runret", "wver", "flush", "fclose",
                "dsclose", "unlock"}
  /\ ~writingDone[p]

\* the writer goroutine: for sw := range swapCh { fmt.Fprint(buf, ...) }
Writer(p) ==
  /\ WriterAlive(p)
  /\ \/ /\ swapCh[p] # <<>>
        /\ BufWrite(p, Head(swapCh[p]))
        /\ swapCh' = [swapCh EXCEPT ![p] = Tail(@)]
        /\ UNCHANGED writingDone
     \/ /\ swapCh[p] = <<>>
        /\ chClosed[p]
        /\ writingDone' = [writingDone EXCEPT ![p] = TRUE]
        /\ UNCHANGED <<swapCh, buf, backup>>
  /\ UNCHANGED <<version, lockHolder, blocks, ctlVars, swapperVars, chClosed,
                 fOpen, revertVars, histVars, faults>>

\* CidSwapper.Run: query all keys and start the workers
RunQuery(p) ==
  /\ pc[p] = "run"
  /\ op[p] = "Apply"
  /\ resultsCh' = [resultsCh EXCEPT ![p] = {k \in Keys : blocks[k] # None}]
  /\ Goto(p, "running")
  /\ UNCHANGED <<repoVars, op, ret, result, wk, nErrors, total, runErr,
                 applyVars, revertVars, histVars, faults>>

Swapping(p) == pc[p] = "running"

\* a per-key error: the worker counts it and the run is aborted
WorkerErr(p, w) ==
  /\ nErrors' = [nErrors EXCEPT ![p] = @ + 1]
  /\ wk' = [wk EXCEPT ![p][w] = IdleWorker]

\* swapWorker: the next key of the query; keys that map to themselves are
\* skipped
WTake(p, w) ==
  /\ Swapping(p)
  /\ op[p] = "Apply"
  /\ wk[p][w].st = "idle"
  /\ nErrors[p] = 0
  /\ \E k \in resultsCh[p] :
       /\ resultsCh' = [resultsCh EXCEPT ![p] = @ \ {k}]
       /\ wk' = [wk EXCEPT ![p][w] =
                   IF f(k) = k THEN IdleWorker
                   ELSE [st |-> "get", old |-> k, new |-> f(k), val |-> None]]
  /\ UNCHANGED <<repoVars, ctlVars, nErrors, total, runErr, applyVars,
                 revertVars, histVars, faults>>

\* unswapWorker: the next record of unswapCh, undone by swap(sw.New, sw.Old)
WTakeUnswap(p, w) ==
  /\ Swapping(p)
  /\ op[p] = "Revert"
  /\ wk[p][w].st = "idle"
  /\ nErrors[p] = 0
  /\ unswapCh[p] # <<>>
  /\ wk' = [wk EXCEPT ![p][w] =
              [st |-> "get", old |-> Head(unswapCh[p])[2],
               new |-> Head(unswapCh[p])[1], val |-> None]]
  /\ unswapCh' = [unswapCh EXCEPT ![p] = Tail(@)]
  /\ UNCHANGED <<repoVars, ctlVars, resultsCh, nErrors, total, runErr,
                 applyVars, unswapClosed, scanPos, diskVars, bulkVars, histVars,
                 faults>>

\* swap: v, err := Store.Get(old)
WGet(p, w) ==
  /\ Swapping(p)
  /\ wk[p][w].st = "get"
  /\ \/ /\ blocks[wk[p][w].old] # None
        /\ wk' = [wk EXCEPT ![p][w].st = "put",
                            ![p][w].val = blocks[wk[p][w].old]]
        /\ UNCHANGED nErrors
        /\ NoFault
     \/ /\ blocks[wk[p][w].old] = None
        /\ WorkerErr(p, w)
        /\ NoFault
     \/ /\ WorkerErr(p, w)
        /\ Fault
  /\ UNCHANGED <<repoVars, ctlVars, resultsCh, total, runErr, applyVars,
                 revertVars, histVars>>

\* swap: Store.Put(new, v)
WPut(p, w) ==
  /\ Swapping(p)
  /\ wk[p][w].st = "put"
  /\ \/ /\ blocks' = [blocks EXCEPT ![wk[p][w].new] = wk[p][w].val]
        /\ wk' = [wk EXCEPT ![p][w].st = "del"]
        /\ UNCHANGED nErrors
        /\ NoFault
     \/ /\ WorkerErr(p, w)
        /\ UNCHANGED blocks
        /\ Fault
  /\ UNCHANGED <<version, lockHolder, backup, ctlVars, resultsCh, total,
                 runErr, applyVars, revertVars, histVars>>

\* swap: Store.Delete(old); the unswap worker counts the swap and goes on
WDelete(p, w) ==
  /\ Swapping(p)
  /\ wk[p][w].st = "del"
  /\ \/ /\ blocks' = [blocks EXCEPT ![wk[p][w].old] = None]
        /\ IF op[p] = "Apply"
             THEN /\ wk' = [wk EXCEPT ![p][w].st = "emit"]
                  /\ UNCHANGED total
             ELSE /\ wk' = [wk EXCEPT ![p][w] = IdleWorker]
                  /\ total' = [total EXCEPT ![p] =
                                 @ \cup {Swap(wk[p][w].old, wk[p][w].new)}]
        /\ UNCHANGED nErrors
        /\ NoFault
     \/ /\ WorkerErr(p, w)
        /\ UNCHANGED <<blocks, total>>
        /\ Fault
  /\ UNCHANGED <<version, lockHolder, backup, ctlVars, resultsCh, runErr,
                 applyVars, revertVars, histVars>>

\* swapWorker: SwapCh <- Swap{Old, New}; blocks while the queue is full
WEmit(p, w) ==
  /\ Swapping(p)
  /\ wk[p][w].st = "emit"
  /\ Len(swapCh[p]) < SwapChCap
  /\ swapCh' = [swapCh EXCEPT ![p] = Append(@, Swap(wk[p][w].old, wk[p][w].new))]
  /\ total' = [total EXCEPT ![p] = @ \cup {Swap(wk[p][w].old, wk[p][w].new)}]
  /\ wk' = [wk EXCEPT ![p][w] = IdleWorker]
  /\ UNCHANGED <<repoVars, ctlVars, resultsCh, nErrors, runErr, chClosed, buf,
                 fOpen, writingDone, revertVars, histVars, faults>>

SwapWorker(p, w) ==
  \/ WTake(p, w)
  \/ WTakeUnswap(p, w)
  \/ WGet(p, w)
  \/ WPut(p, w)
  \/ WDelete(p, w)
  \/ WEmit(p, w)

AllIdle(p) == \A w \in Workers : wk[p][w].st = "idle"

\* the keys or records still to come to the workers
Exhausted(p) ==
  IF op[p] = "Apply" THEN resultsCh[p] = {}
  ELSE unswapCh[p] = <<>> /\ unswapClosed[p]

\* runWorkers: wg.Wait(), an error if any worker failed; Run closes SwapCh
RunJoin(p) ==
  /\ Swapping(p)
  /\ AllIdle(p)
  /\ Exhausted(p) \/ nErrors[p] > 0
  /\ chClosed' = [chClosed EXCEPT ![p] = op[p] = "Apply"]
  /\ runErr' = [runErr EXCEPT ![p] = nErrors[p] > 0]
  /\ Goto(p, "runret")
  /\ UNCHANGED <<repoVars, op, ret, result, resultsCh, wk, nErrors, total,
                 swapCh, buf, fOpen, writingDone, revertVars, histVars, faults>>

\* mutant: the error of Run is not returned
AfterRunErrIgnored(p) ==
  /\ pc[p] = "runret"
  /\ op[p] = "Apply"
  /\ writingDone[p]
  /\ Goto(p, "wver")
  /\ UNCHANGED <<repoVars, op, ret, result, swapperVars, applyVars, revertVars,
                 histVars, faults>>

\* total, err := cidSwapper.Run(); if err != nil { return err };
\* <-writingDone
AfterRun(p) ==
  /\ pc[p] = "runret"
  /\ op[p] = "Apply"
  /\ IF runErr[p]
       THEN ReturnErr(p, "TransformIOError", "flush")
       ELSE writingDone[p] /\ Goto(p, "wver") /\ UNCHANGED ret
  /\ UNCHANGED <<repoVars, op, result, swapperVars, applyVars, revertVars,
                 histVars, faults>>

\* mutant: the version is written before the error of Run is looked at
WriteVersion9Early(p) ==
  /\ pc[p] \in {"runret", "wver"}
  /\ op[p] = "Apply"
  /\ version' = "9"
  /\ ReturnErr(p, "ok", "flush")
  /\ NoFault
  /\ UNCHANGED <<lockHolder, blocks, backup, op, result, swapperVars,
                 applyVars, revertVars, histVars>>

\* repo.WriteVersion("9"); return nil
WriteVersion9(p) ==
  /\ pc[p] = "wver"
  /\ \/ /\ version' = "9"
        /\ ReturnErr(p, "ok", "flush")
        /\ NoFault
     \/ /\ ReturnErr(p, "VersionWriteError", "flush")
        /\ UNCHANGED version
        /\ Fault
  /\ UNCHANGED <<lockHolder, blocks, backup, op, result, swapperVars,
                 applyVars, revertVars, histVars>>

\* mutant: the buffer is not flushed before the file is closed
DeferNoFlush(p) ==
  /\ pc[p] = "flush"
  /\ Goto(p, "fclose")
  /\ UNCHANGED <<repoVars, op, ret, result, swapperVars, applyVars, revertVars,
                 histVars, faults>>

\* defer buf.Flush()
DeferFlush(p) ==
  /\ pc[p] = "flush"
  /\ backup' = [backup EXCEPT !.lines = @ \o buf[p]]
  /\ buf' = [buf EXCEPT ![p] = <<>>]
  /\ Goto(p, "fclose")
  /\ UNCHANGED <<version, lockHolder, blocks, op, ret, result, swapperVars,
                 swapCh, chClosed, fOpen, writingDone, revertVars, histVars, faults>>

\* defer f.Close()
DeferFClose(p) ==
  /\ pc[p] = "fclose"
  /\ fOpen' = [fOpen EXCEPT ![p] = FALSE]
  /\ Goto(p, "dsclose")
  /\ UNCHANGED <<repoVars, op, ret, result, swapperVars, swapCh, chClosed,
                 buf, writingDone, revertVars, histVars, faults>>

\* defer dstore.Close()
DeferDsClose(p) ==
  /\ pc[p] = "dsclose"
  /\ Goto(p, "unlock")
  /\ UNCHANGED <<repoVars, op, ret, result, swapperVars, applyVars,
                 revertVars, histVars, faults>>

\* mutant: the lock is closed on the success path only
UnlockOnSuccess(p) ==
  /\ pc[p] = "unlock"
  /\ lockHolder' = IF lockHolder = p /\ ret[p] = "ok" THEN 0 ELSE lockHolder
  /\ result' = [result EXCEPT ![p] = ret[p]]
  /\ ret' = [ret EXCEPT ![p] = None]
  /\ Goto(p, "idle")
  /\ ProcessExit(p)
  /\ Returned(p)
  /\ UNCHANGED <<version, blocks, backup, op, diskVars, faults>>

\* defer lk.Close(), and the invocation returns
Unlock(p) ==
  /\ pc[p] = "unlock"
  /\ lockHolder' = IF lockHolder = p THEN 0 ELSE lockHolder
  /\ result' = [result EXCEPT ![p] = ret[p]]
  /\ ret' = [ret EXCEPT ![p] = None]
  /\ Goto(p, "idle")
  /\ ProcessExit(p)
  /\ Returned(p)
  /\ UNCHANGED <<version, blocks, backup, op, diskVars, faults>>

\* the process of the invocation dies (crash, kill, power loss): what it
\* holds in memory is gone, its files are closed unflushed and its lock on
\* the repo is released by the operating system; the disk stays as it is
Crash(p) ==
  /\ pc[p] \notin {"idle", "off"}
  /\ Fault
  /\ lockHolder' = IF lockHolder = p THEN 0 ELSE lockHolder
  /\ result' = [result EXCEPT ![p] = "crashed"]
  /\ ret' = [ret EXCEPT ![p] = None]
  /\ Goto(p, "idle")
  /\ ProcessExit(p)
  /\ snap' = [snap EXCEPT ![p] = None]
  /\ fsnap' = [fsnap EXCEPT ![p] = 0]
  /\ trip' = [phase |-> "none", step |-> None, S |-> None]
  /\ UNCHANGED <<version, blocks, backup, op, diskVars, runs, disk0>>

\* ---------------------------------------------------------- 8-to-9 Revert
\* f, err := os.Open(backupPath); make(chan Swap), bufio.NewScanner(f) and
\* the start of the scanner goroutine
OpenBackup(p) ==
  /\ pc[p] = "openbackup"
  /\ \/ /\ backup.exists
        /\ fOpen' = [fOpen EXCEPT ![p] = TRUE]
        /\ Goto(p, "running")
        /\ UNCHANGED ret
        /\ NoFault
     \/ /\ ~backup.exists
        /\ ReturnErr(p, "BackupOpenError", "dsclose")
        /\ UNCHANGED fOpen
        /\ NoFault
     \/ /\ ReturnErr(p, "BackupOpenError", "dsclose")
        /\ UNCHANGED fOpen
        /\ Fault
  /\ UNCHANGED <<repoVars, op, result, swapperVars, swapCh, chClosed, buf,
                 writingDone, revertVars, histVars>>

\* strings.Split(line, ","): a line is the sequence of its fields
WellFormed(line) == Len(line) = 2

ScannerAlive(p) ==
  /\ op[p] = "Revert"
  /\ pc[p] \in {"running", "runret", "rclose", "remove", "dsclose", "unlock"}
  /\ ~unswapClosed[p]

\* mutant: the scanner stops at a bad line
ScannerStopsAtBadLine(p) ==
  /\ ScannerAlive(p)
  /\ \/ /\ scanPos[p] < Len(backup.lines)
        /\ fOpen[p]
        /\ WellFormed(backup.lines[scanPos[p] + 1])
        /\ Len(unswapCh[p]) < SwapChCap
        /\ unswapCh' = [unswapCh EXCEPT ![p] =
                          Append(@, backup.lines[scanPos[p] + 1])]
        /\ scanPos' = [scanPos EXCEPT ![p] = @ + 1]
        /\ UNCHANGED unswapClosed
     \/ /\ IF scanPos[p] < Len(backup.lines) /\ fOpen[p]
             THEN ~WellFormed(backup.lines[scanPos[p] + 1])
             ELSE TRUE
        /\ unswapClosed' = [unswapClosed EXCEPT ![p] = TRUE]
        /\ UNCHANGED <<unswapCh, scanPos>>
  /\ UNCHANGED <<repoVars, ctlVars, swapperVars, applyVars, diskVars, bulkVars,
                 histVars, faults>>

\* the scanner goroutine: a bad line is skipped, a good one is sent to
\* unswapCh; at the end of the file or on a scanner error unswapCh is closed
Scanner(p) ==
  /\ ScannerAlive(p)
  /\ \/ /\ scanPos[p] < Len(backup.lines)
        /\ fOpen[p]
        /\ IF WellFormed(backup.lines[scanPos[p] + 1])
             THEN /\ Len(unswapCh[p]) < SwapChCap
                  /\ unswapCh' = [unswapCh EXCEPT ![p] =
                                    Append(@, backup.lines[scanPos[p] + 1])]
             ELSE UNCHANGED unswapCh
        /\ scanPos' = [scanPos EXCEPT ![p] = @ + 1]
        /\ UNCHANGED unswapClosed
        /\ NoFault
     \/ /\ scanPos[p] >= Len(backup.lines) \/ ~fOpen[p]
        /\ unswapClosed' = [unswapClosed EXCEPT ![p] = TRUE]
        /\ UNCHANGED <<unswapCh, scanPos>>
        /\ NoFault
     \/ /\ scanPos[p] < Len(backup.lines)
        /\ unswapClosed' = [unswapClosed EXCEPT ![p] = TRUE]
        /\ UNCHANGED <<unswapCh, scanPos>>
        /\ Fault
  /\ UNCHANGED <<repoVars, ctlVars, swapperVars, applyVars, diskVars, bulkVars,
                 histVars>>

\* total, err := cidSwapper.Revert(unswapCh); if err != nil { return err };
\* repo.WriteVersion("8")
WriteVersion8(p) ==
  /\ pc[p] = "runret"
  /\ op[p] = "Revert"
  /\ \/ /\ runErr[p]
        /\ ReturnErr(p, "TransformIOError", "dsclose")
        /\ UNCHANGED version
        /\ NoFault
     \/ /\ ~runErr[p]
        /\ version' = "8"
        /\ Goto(p, "rclose")
        /\ UNCHANGED ret
        /\ NoFault
     \/ /\ ~runErr[p]
        /\ ReturnErr(p, "VersionWriteError", "dsclose")
        /\ UNCHANGED version
        /\ Fault
  /\ UNCHANGED <<lockHolder, blocks, backup, op, result, swapperVars,
                 applyVars, revertVars, histVars>>

\* err = f.Close(); if err != nil { return err }
CloseBackup(p) ==
  /\ pc[p] = "rclose"
  /\ fOpen' = [fOpen EXCEPT ![p] = FALSE]
  /\ \/ /\ Goto(p, "remove")
        /\ UNCHANGED ret
        /\ NoFault
     \/ /\ ReturnErr(p, "BackupCloseError", "dsclose")
        /\ Fault
  /\ UNCHANGED <<repoVars, op, result, swapperVars, swapCh, chClosed, buf,
                 writingDone, revertVars, histVars>>

\* err = os.Remove(backupPath): a failure is logged only; return nil
RemoveBackup(p) ==
  /\ pc[p] = "remove"
  /\ \/ /\ backup' = [exists |-> FALSE, lines |-> <<>>]
        /\ NoFault
     \/ /\ UNCHANGED backup
        /\ Fault
  /\ ReturnErr(p, "ok", "dsclose")
  /\ UNCHANGED <<version, lockHolder, blocks, op, result, swapperVars,
                 applyVars, revertVars, histVars>>

\* ------------------------------------------------------------ 1-to-2 step
Is12(p) == op[p] \in {"Apply12", "Revert12"}
Expected12(o) == IF o = "Apply12" THEN "1" ELSE "2"

\* the stores and prefixes of transferBlocks(from, to, fpref, tpref)
From(p) == IF op[p] = "Apply12" THEN ldb ELSE fds
FPref(p) == IF op[p] = "Apply12" THEN PrefB ELSE <<>>
TPref(p) == IF op[p] = "Apply12" THEN <<>> ELSE PrefB

\* Apply / Revert of 1-to-2 start with repo.CheckVersion, without a lock
Start12(p, o) ==
  /\ pc[p] = "idle"
  /\ runs < MaxRuns
  /\ Started(p, o)
  /\ op' = [op EXCEPT ![p] = o]
  /\ path' = [path EXCEPT ![p] = repoDir]
  /\ result' = [result EXCEPT ![p] = None]
  /\ ret' = [ret EXCEPT ![p] = None]
  /\ Goto(p, "checkver12")
  /\ UNCHANGED <<repoVars, swapperVars, applyVars, revertVars0, diskVars, tq,
                 tb, faults>>

\* repo.CheckVersion("1") in Apply, repo.CheckVersion("2") in Revert
CheckVersion12(p) ==
  /\ pc[p] = "checkver12"
  /\ IF version # Expected12(op[p])
       THEN ReturnErr(p, "VersionMismatchError", "return")
       ELSE /\ Goto(p, IF op[p] = "Apply12" THEN "sanity" ELSE "revdir")
            /\ UNCHANGED ret
  /\ UNCHANGED <<repoVars, op, result, swapperVars, applyVars, revertVars,
                 histVars, faults>>

\* sanityChecks: os.Mkdir(npath) and os.Remove(npath)
SanityChecks(p) ==
  /\ pc[p] = "sanity"
  /\ \/ /\ ToIpfs(path[p]) # repoDir
        /\ Goto(p, "openstores")
        /\ UNCHANGED ret
        /\ NoFault
     \/ /\ ToIpfs(path[p]) = repoDir
        /\ ReturnErr(p, "SanityError", "return")
        /\ NoFault
     \/ /\ ReturnErr(p, "SanityError", "return")
        /\ Fault
  /\ UNCHANGED <<repoVars, op, result, swapperVars, applyVars, revertVars, histVars>>

\* reverseIpfsDir: os.Rename(curpath, newpath)
ReverseIpfsDir(p) ==
  /\ pc[p] = "revdir"
  /\ \/ /\ path[p] = repoDir
        /\ repoDir' = ToGoIpfs(path[p])
        /\ path' = [path EXCEPT ![p] = ToGoIpfs(@)]
        /\ Goto(p, "openstores")
        /\ UNCHANGED ret
        /\ NoFault
     \/ /\ path[p] # repoDir
        /\ ReturnErr(p, "RenameError", "return")
        /\ UNCHANGED <<repoDir, path>>
        /\ NoFault
     \/ /\ ReturnErr(p, "RenameError", "return")
        /\ UNCHANGED <<repoDir, path>>
        /\ Fault
  /\ UNCHANGED <<repoVars, op, result, swapperVars, applyVars, revertVars0,
                 ldb, fds, blocksDir, tq, tb, histVars>>

\* transferBlocksToFlatDB / transferBlocksFromFlatDB up to the query of
\* transferBlocks: open leveldb, os.Mkdir(blocks) (it may exist),
\* flatfs.New(blocks), from.Query(Prefix: fpref, KeysOnly)
OpenStores(p) ==
  /\ pc[p] = "openstores"
  /\ \/ /\ op[p] = "Apply12" \/ blocksDir
        /\ blocksDir' = TRUE
        /\ tq' = [tq EXCEPT ![p] = DsQuery(From(p), FPref(p))]
        /\ tb' = [tb EXCEPT ![p] = IdleTransfer]
        /\ Goto(p, "transfer")
        /\ UNCHANGED ret
        /\ NoFault
     \/ /\ op[p] = "Revert12" /\ ~blocksDir
        /\ ReturnErr(p, "StoreOpenError", "return")
        /\ UNCHANGED <<blocksDir, tq, tb>>
        /\ NoFault
     \/ /\ ReturnErr(p, "StoreOpenError", "return")
        /\ UNCHANGED <<blocksDir, tq, tb>>
        /\ Fault
  /\ UNCHANGED <<repoVars, op, result, swapperVars, applyVars, revertVars0,
                 ldb, fds, repoDir, path, histVars>>

Transferring(p) == pc[p] = "transfer" /\ Is12(p)

TransferErr(p) ==
  /\ ReturnErr(p, "TransformIOError", "return")
  /\ tb' = [tb EXCEPT ![p] = IdleTransfer]

\* mutant: the entry is deleted from the source before it is put
TGetAndDelete(p) ==
  /\ Transferring(p)
  /\ tb[p].st = "next"
  /\ \E k \in tq[p] :
       /\ tq' = [tq EXCEPT ![p] = @ \ {k}]
       /\ DsHas(From(p), NewKey(k))
       /\ tb' = [tb EXCEPT ![p] =
                   [st |-> "put", key |-> k, val |-> DsGet(From(p), NewKey(k))]]
       /\ IF op[p] = "Apply12"
            THEN ldb' = DsDelete(ldb, NewKey(k)) /\ UNCHANGED fds
            ELSE fds' = DsDelete(fds, NewKey(k)) /\ UNCHANGED ldb
  /\ UNCHANGED <<repoVars, ctlVars, swapperVars, applyVars, revertVars0,
                 blocksDir, repoDir, path, histVars, faults>>

\* for result := range res.Next() { val, err := from.Get(fkey)
TGet(p) ==
  /\ Transferring(p)
  /\ tb[p].st = "next"
  /\ \E k \in tq[p] :
       /\ tq' = [tq EXCEPT ![p] = @ \ {k}]
       /\ \/ /\ DsHas(From(p), NewKey(k))
             /\ tb' = [tb EXCEPT ![p] =
                         [st |-> "put", key |-> k, val |-> DsGet(From(p), NewKey(k))]]
             /\ UNCHANGED <<pc, ret>>
             /\ NoFault
          \/ /\ ~DsHas(From(p), NewKey(k))
             /\ TransferErr(p)
             /\ NoFault
          \/ /\ TransferErr(p)
             /\ Fault
  /\ UNCHANGED <<repoVars, op, result, swapperVars, applyVars, revertVars0,
                 diskVars, path, histVars>>

\* mutant: the error of Put is not returned, the loop goes on to the Delete
TPutErrIgnored(p) ==
  /\ Transferring(p)
  /\ tb[p].st = "put"
  /\ \/ /\ IF op[p] = "Apply12"
             THEN /\ fds' = DsPut(fds, NewKey(NKey(tb[p].key, FPref(p), TPref(p))), tb[p].val)
                  /\ UNCHANGED ldb
             ELSE /\ ldb' = DsPut(ldb, NewKey(NKey(tb[p].key, FPref(p), TPref(p))), tb[p].val)
                  /\ UNCHANGED fds
        /\ NoFault
     \/ /\ UNCHANGED <<ldb, fds>>
        /\ Fault
  /\ tb' = [tb EXCEPT ![p].st = "del"]
  /\ UNCHANGED <<repoVars, ctlVars, swapperVars, applyVars, revertVars0,
                 blocksDir, repoDir, path, tq, histVars>>

\* err = to.Put(dstore.NewKey(nkey), val)
TPut(p) ==
  /\ Transferring(p)
  /\ tb[p].st = "put"
  /\ \/ /\ IF op[p] = "Apply12"
             THEN /\ fds' = DsPut(fds, NewKey(NKey(tb[p].key, FPref(p), TPref(p))), tb[p].val)
                  /\ UNCHANGED ldb
             ELSE /\ ldb' = DsPut(ldb, NewKey(NKey(tb[p].key, FPref(p), TPref(p))), tb[p].val)
                  /\ UNCHANGED fds
        /\ tb' = [tb EXCEPT ![p].st = "del"]
        /\ UNCHANGED <<pc, ret>>
        /\ NoFault
     \/ /\ TransferErr(p)
        /\ UNCHANGED <<ldb, fds>>
        /\ Fault
  /\ UNCHANGED <<repoVars, op, result, swapperVars, applyVars, revertVars0,
                 blocksDir, repoDir, path, tq, histVars>>

\* err = from.Delete(fkey) }
TDelete(p) ==
  /\ Transferring(p)
  /\ tb[p].st = "del"
  /\ \/ /\ IF op[p] = "Apply12"
             THEN /\ ldb' = DsDelete(ldb, NewKey(tb[p].key))
                  /\ UNCHANGED fds
             ELSE /\ fds' = DsDelete(fds, NewKey(tb[p].key))
                  /\ UNCHANGED ldb
        /\ tb' = [tb EXCEPT ![p] = IdleTransfer]
        /\ UNCHANGED <<pc, ret>>
        /\ NoFault
     \/ /\ TransferErr(p)
        /\ UNCHANGED <<ldb, fds>>
        /\ Fault
  /\ UNCHANGED <<repoVars, op, result, swapperVars, applyVars, revertVars0,
                 blocksDir, repoDir, path, tq, histVars>>

\* the loop of transferBlocks ends: return nil
TDone(p) ==
  /\ Transferring(p)
  /\ tb[p].st = "next"
  /\ tq[p] = {}
  /\ Goto(p, IF op[p] = "Apply12" THEN "move" ELSE "rmblocks")
  /\ UNCHANGED <<repoVars, op, ret, result, swapperVars, applyVars,
                 revertVars, histVars, faults>>

transferBlocks(p) ==
  \/ TGet(p)
  \/ TPut(p)
  \/ TDelete(p)
  \/ TDone(p)

\* moveIpfsDir: os.Rename(curpath, newpath)
MoveIpfsDir(p) ==
  /\ pc[p] = "move"
  /\ \/ /\ path[p] = repoDir
        /\ repoDir' = ToIpfs(path[p])
        /\ path' = [path EXCEPT ![p] = ToIpfs(@)]
        /\ Goto(p, "wver2")
        /\ UNCHANGED ret
        /\ NoFault
     \/ /\ path[p] # repoDir
        /\ ReturnErr(p, "RenameError", "return")
        /\ UNCHANGED <<repoDir, path>>
        /\ NoFault
     \/ /\ ReturnErr(p, "RenameError", "return")
        /\ UNCHANGED <<repoDir, path>>
        /\ Fault
  /\ UNCHANGED <<repoVars, op, result, swapperVars, applyVars, revertVars0,
                 ldb, fds, blocksDir, tq, tb, histVars>>

\* repo.WriteVersion("2"); return nil
WriteVersion2(p) ==
  /\ pc[p] = "wver2"
  /\ \/ /\ version' = "2"
        /\ ReturnErr(p, "ok", "return")
        /\ NoFault
     \/ /\ ReturnErr(p, "VersionWriteError", "return")
        /\ UNCHANGED version
        /\ Fault
  /\ UNCHANGED <<lockHolder, blocks, backup, op, result, swapperVars,
                 applyVars, revertVars, histVars>>

\* transferBlocksFromFlatDB: os.RemoveAll(blockspath)
RemoveBlocks(p) ==
  /\ pc[p] = "rmblocks"
  /\ \/ /\ fds' = {}
        /\ blocksDir' = FALSE
        /\ Goto(p, "wver1")
        /\ UNCHANGED ret
        /\ NoFault
     \/ /\ ReturnErr(p, "RemoveError", "return")
        /\ UNCHANGED <<fds, blocksDir>>
        /\ Fault
  /\ UNCHANGED <<repoVars, op, result, swapperVars, applyVars, revertVars0,
                 ldb, repoDir, bulkVars, histVars>>

\* repo.WriteVersion("1"); return nil
WriteVersion1(p) ==
  /\ pc[p] = "wver1"
  /\ \/ /\ version' = "1"
        /\ ReturnErr(p, "ok", "return")
        /\ NoFault
     \/ /\ ReturnErr(p, "VersionWriteError", "return")
        /\ UNCHANGED version
        /\ Fault
  /\ UNCHANGED <<lockHolder, blocks, backup, op, result, swapperVars,
                 applyVars, revertVars, histVars>>

\* the invocation returns
Return12(p) ==
  /\ pc[p] = "return"
  /\ result' = [result EXCEPT ![p] = ret[p]]
  /\ ret' = [ret EXCEPT ![p] = None]
  /\ Goto(p, "idle")
  /\ ProcessExit(p)
  /\ Returned(p)
  /\ UNCHANGED <<repoVars, op, diskVars, faults>>

Apply89(p) ==
  \/ Lock(p, "Apply")
  \/ OpenFile(p)
  \/ Writer(p)
  \/ RunQuery(p)
  \/ AfterRun(p)
  \/ WriteVersion9(p)
  \/ DeferFlush(p)
  \/ DeferFClose(p)

Revert89(p) ==
  \/ Lock(p, "Revert")
  \/ OpenBackup(p)
  \/ Scanner(p)
  \/ WriteVersion8(p)
  \/ CloseBackup(p)
  \/ RemoveBackup(p)

Step89(p) ==
  \/ CheckVersion(p)
  \/ Open(p)
  \/ \E w \in Workers : SwapWorker(p, w)
  \/ RunJoin(p)
  \/ DeferDsClose(p)
  \/ Unlock(p)

Apply12(p) ==
  \/ Start12(p, "Apply12")
  \/ SanityChecks(p)
  \/ MoveIpfsDir(p)
  \/ WriteVersion2(p)

Revert12(p) ==
  \/ Start12(p, "Revert12")
  \/ ReverseIpfsDir(p)
  \/ RemoveBlocks(p)
  \/ WriteVersion1(p)

Step12(p) ==
  \/ CheckVersion12(p)
  \/ OpenStores(p)
  \/ transferBlocks(p)
  \/ Return12(p)

Next ==
  \E p \in Procs :
    \/ Apply89(p)
    \/ Revert89(p)
    \/ Step89(p)
    \/ Apply12(p)
    \/ Revert12(p)
    \/ Step12(p)
    \/ Crash(p)

Spec == Init /\ [][Next]_vars

SpecPar == InitPar /\ [][Next]_vars

\* a process that can take a step is not held up for ever: the goroutines of
\* a running invocation are scheduled, and so is its main function
SpecLive == Init /\ [][Next]_vars /\ WF_vars(Next)


TypeOK ==
  /\ version \in {"1", "2", "8", "9"}
  /\ lockHolder \in Procs \cup {0}
  /\ \A p \in Procs : Len(swapCh[p]) <= SwapChCap /\ Len(unswapCh[p]) <= SwapChCap
  /\ \A p \in Procs : Len(buf[p]) <= BufSize

\* ----------------------------------------------------------------- claims
Running(p) == pc[p] \notin {"idle", "off"}

\* the invocation is in its deferred calls, returning nil
ReturningOk(p) ==
  pc[p] \in {"flush", "fclose", "dsclose", "unlock", "return"} /\ ret[p] = "ok"

\* C1: in every state of an 8-to-9 Apply in which the version marker is
\* already "9", the writer has consumed the whole queue and the buffer of the
\* backup log has been flushed: no record of the run is in memory only.
C1_LogBeforeCommit ==
  \A p \in Procs :
    (Running(p) /\ op[p] = "Apply" /\ snap[p].version = "8" /\ version = "9")
      => (swapCh[p] = <<>> /\ writingDone[p] /\ buf[p] = <<>>)

\* C2: when a successful Apply has been followed by a successful Revert, the
\* store holds exactly the keys and values it held when the Apply started,
\* and the version marker is back at the version the Apply started from.
\* Stated for the stores no earlier attempt has left half migrated (no
\* backup file and no flat store when the Apply starts) and for the runs in
\* which no I/O operation fails.
C2_RoundTrip ==
  (/\ trip.phase = "reverted"
   /\ ~trip.S.backup.exists
   /\ ~trip.S.blocksDir
   /\ faults = 0) =>
    /\ blocks = trip.S.blocks
    /\ ldb = trip.S.ldb
    /\ fds = trip.S.fds
    /\ version = trip.S.version

\* C3: when an 8-to-9 Apply returns nil, every key K that held value V when
\* the Apply started is found under f(K) with value V, and K itself is gone
\* unless f(K) = K; whatever the interleaving of the workers.
C3_ApplyPostcondition ==
  \A p \in Procs :
    (op[p] = "Apply" /\ ReturningOk(p)) =>
      \A k \in Keys :
        snap[p].blocks[k] # None =>
          /\ blocks[f(k)] = snap[p].blocks[k]
          /\ f(k) # k => blocks[k] = None

\* two workers have swapped two CIDs of one multihash, and a third key
C3_Witness ==
  \E p \in Procs :
    /\ op[p] = "Apply" /\ pc[p] = "unlock" /\ ret[p] = "ok"
    /\ snap[p].blocks["c1a"] = "v1" /\ snap[p].blocks["c1b"] = "v1"
    /\ snap[p].blocks["c2"] = "v2" /\ snap[p].blocks["mh1"] = None
    /\ blocks["mh1"] = "v1" /\ blocks["mh2"] = "v2" /\ blocks["c1a"] = None

ExpectedOf(o) == IF Family(o) = "8-to-9" THEN Expected(o) ELSE Expected12(o)

\* C4: an Apply or Revert started on a repo whose version marker is not the
\* one it requires gets no further than its version check, returns the
\* version error, and the store, the backup file and the version marker are
\* as they were when it started.
C4_VersionGate ==
  \A p \in Procs :
    (Running(p) /\ snap[p].version # ExpectedOf(op[p])) =>
      /\ \/ pc[p] \in {"checkver", "checkver12"}
         \/ pc[p] \in {"unlock", "return"} /\ ret[p] = "VersionMismatchError"
      /\ Disk = snap[p]

\* Apply is run again on a migrated repo and is about to return the error
C4_Witness ==
  \E p \in Procs :
    /\ op[p] = "Apply" /\ pc[p] = "unlock" /\ ret[p] = "VersionMismatchError"
    /\ version = "9" /\ backup.lines # <<>>

\* the transform phase of the Apply has completed without error
TransformDone(p) ==
  IF op[p] = "Apply"
    THEN /\ pc[p] \in {"flush", "fclose", "dsclose", "unlock"}
         /\ ~runErr[p] /\ nErrors[p] = 0 /\ resultsCh[p] = {} /\ AllIdle(p)
         /\ chClosed[p] /\ writingDone[p]
    ELSE /\ pc[p] = "return"
         /\ tq[p] = {} /\ tb[p] = IdleTransfer /\ repoDir = ".ipfs"

\* C5: during an Apply started at version `from`, the version marker is `to`
\* only when the transform has completed without error, and while the Apply
\* is returning an error the marker is still `from`.
C5_VersionAfterTransform ==
  \A p \in Procs :
    (Running(p) /\ IsApply(op[p]) /\ snap[p].version = ExpectedOf(op[p])) =>
      /\ version # snap[p].version => (ret[p] = "ok" /\ TransformDone(p))
      /\ ret[p] \notin {None, "ok"} => version = snap[p].version

\* an Apply that swapped keys has written the version and returns nil
C5_Witness ==
  \E p \in Procs :
    /\ op[p] = "Apply" /\ pc[p] = "unlock" /\ ret[p] = "ok"
    /\ version = "9" /\ total[p] # {}

\* the invocation of 8-to-9 is between m.lock and the deferred lk.Close
Held(p) ==
  pc[p] \in {"checkver", "open", "openfile", "run", "running", "runret",
             "wver", "flush", "fclose", "openbackup", "rclose", "remove",
             "dsclose", "unlock"}

\* C6: an 8-to-9 Apply or Revert holds the repo lock from before its version
\* check until it returns; every change of the /blocks namespace, of the
\* backup file and of the version marker of a version 8/9 repo is made while
\* the lock is held; an invocation that has returned, with nil or with any
\* error, does not hold the lock.
C6_LockHeldAndReleased ==
  /\ [](\A p \in Procs :
          /\ Held(p) => lockHolder = p
          /\ pc[p] = "idle" => lockHolder # p)
  /\ [][(blocks' # blocks \/ backup' # backup
           \/ (version' # version /\ version' \in {"8", "9"}))
          => (lockHolder \in Procs /\ lockHolder' = lockHolder
              /\ Held(lockHolder))]_vars

\* an Apply has returned a per-key error and the lock is free again, while
\* the other process was refused the lock in between
C6_Witness ==
  \E p, q \in Procs :
    /\ pc[p] = "idle" /\ result[p] = "TransformIOError" /\ op[p] = "Apply"
    /\ result[q] = "LockError"
    /\ lockHolder = 0

\* the invocation is past its version check and before its version write
InStep(p) ==
  pc[p] \in {"open", "openfile", "run", "running", "runret", "wver",
             "openbackup",
             "sanity", "revdir", "openstores", "transfer", "move", "wver2",
             "rmblocks", "wver1"}

\* C7: of two invocations on the same repo, whatever the step, at most one is
\* between its version check and its version write.
C7_SingleOwner == Cardinality({p \in Procs : InStep(p)}) <= 1

\* the entries of store s under prefix pre, rewritten to prefix tpre
Moved(s, pre) == {e \in s : HasPrefix(e[1], pre)}
Images(s, pre, tpre) ==
  {<<NewKey(tpre \o SubSeq(e[1], Len(pre) + 1, Len(e[1]))), e[2]>> :
     e \in Moved(s, pre)}
PutAll(s, es) == {e \in s : e[1] \notin DsKeys(es)} \cup es

\* the stores after transferBlocks(from, to, fpref, tpref) on stores d
Transferred(d, o) ==
  IF o = "Apply12"
    THEN [ldb |-> d.ldb \ Moved(d.ldb, PrefB),
          fds |-> PutAll(d.fds, Images(d.ldb, PrefB, <<>>))]
    ELSE [ldb |-> PutAll(d.ldb, Images(d.fds, <<>>, PrefB)),
          fds |-> d.fds \ Moved(d.fds, <<>>)]

TransferReturnedNil(p) == Is12(p) /\ pc[p] \in {"move", "rmblocks"}

\* C8: when transferBlocks returns nil, every entry (K, V) the source held
\* under fpref is in the destination under NewKey(tpref + K[len(fpref):])
\* with value V, the source holds no key under fpref any more and is otherwise
\* unchanged, the destination holds nothing else that is new, and as many
\* entries were moved as the source held under the prefix.
C8_BulkTransferPost ==
  \A p \in Procs :
    TransferReturnedNil(p) =>
      /\ ldb = Transferred(snap[p], op[p]).ldb
      /\ fds = Transferred(snap[p], op[p]).fds
      /\ DsQuery(From(p), FPref(p)) = {}
      /\ Cardinality(Images(IF op[p] = "Apply12" THEN snap[p].ldb ELSE snap[p].fds,
                            FPref(p), TPref(p)))
           = Cardinality(DsQuery(IF op[p] = "Apply12" THEN snap[p].ldb ELSE snap[p].fds,
                                 FPref(p)))

\* two blocks went from /b/x and /b/y to /x and /y of the flat store, and
\* the key outside the prefix stayed
C8_Witness ==
  \E p \in Procs :
    /\ op[p] = "Apply12" /\ pc[p] = "move"
    /\ snap[p].ldb = LdbOf({KeyBX, KeyBY, KeyC})
    /\ fds = {<<<<"/", "x">>, "v1">>, <<<<"/", "y">>, "v2">>}
    /\ ldb = {<<KeyC, "v3">>}

\* C9: whenever transferBlocks returns nil, also when earlier transfers over
\* the same prefix failed after a Get, a Put or a Delete of any key, the two
\* stores are exactly as one uninterrupted transfer of the initial stores
\* leaves them: no entry lost, none with another value.
C9_RerunSafe ==
  \A p \in Procs :
    TransferReturnedNil(p) =>
      IF op[p] = "Apply12"
        THEN /\ ldb = Transferred(disk0, "Apply12").ldb
             /\ fds = Transferred(disk0, "Apply12").fds
        ELSE /\ ldb = disk0.ldb
             /\ fds = {}

\* a rerun completes after a transfer that failed between the Put and the
\* Delete of one key, with another key not yet moved
C9_Witness ==
  \E p \in Procs :
    /\ op[p] = "Apply12" /\ pc[p] = "move"
    /\ disk0.ldb = LdbOf({KeyBX, KeyBY, KeyC})
    /\ \E k \in {KeyBX, KeyBY} :
         /\ DsHas(snap[p].ldb, k)
         /\ DsHas(snap[p].fds, NewKey(NKey(k, PrefB, <<>>)))
    /\ DsKeys(snap[p].ldb) = {KeyBX, KeyBY, KeyC}

Range(sq) == {sq[i] : i \in 1 .. Len(sq)}

\* the lines this Apply has appended to the backup file
NewLines(p) ==
  SubSeq(backup.lines, Len(snap[p].backup.lines) + 1, Len(backup.lines))

ApplyReturnsNil(p) == op[p] = "Apply" /\ pc[p] = "unlock" /\ ret[p] = "ok"

BeforeVersionWrite(p) ==
  pc[p] \in {"checkver", "open", "openfile", "run", "running", "runret", "wver"}

\* the state part of C11
CrashConsistent ==
  \A p \in Procs :
    (op[p] = "Apply" /\ Running(p) /\ snap[p].version = "8") =>
      /\ (BeforeVersionWrite(p) \/ ret[p] \notin {None, "ok"}) => version = "8"
      /\ (pc[p] = "unlock" /\ fsnap[p] = faults) => ret[p] = "ok"
      /\ ReturningOk(p) =>
           /\ version = "9"
           /\ \A k \in Keys :
                disk0.blocks[k] # None =>
                  /\ blocks[f(k)] = disk0.blocks[k]
                  /\ f(k) # k => blocks[k] = None

\* C11: while an 8-to-9 Apply started at version "8" has not reached its
\* version write, and while it returns an error, the version marker is "8",
\* so an Apply interrupted there (crash or per-key failure) leaves version
\* "8"; an Apply started at version "8" in which nothing fails, also a rerun
\* after interrupted attempts, returns nil, and it does return once no more
\* failure occurs; and when an Apply returns nil the version is "9" and every
\* key K of the initial store is found under f(K) with its initial value, K
\* itself being gone unless f(K) = K.
C11_CrashConsistency ==
  /\ []CrashConsistent
  /\ \A p \in Procs :
       (op[p] = "Apply" /\ pc[p] = "checkver" /\ version = "8"
          /\ faults = MaxFaults)
         ~> (pc[p] = "idle" /\ result[p] = "ok" /\ version = "9")

\* a rerun returns nil after an attempt that was interrupted with some keys
\* swapped, some records in the backup file and some keys still to swap
C11_Witness ==
  \E p \in Procs :
    /\ ApplyReturnsNil(p)
    /\ snap[p].version = "8"
    /\ snap[p].backup.lines # <<>>
    /\ snap[p].blocks # disk0.blocks
    /\ \E k \in Keys : snap[p].blocks[k] # None /\ f(k) # k
    /\ fsnap[p] > 0

\* C12: when an Apply returns nil, every key that has been swapped since
\* the repo was at version "8" with its initial store, by this Apply or by an
\* earlier attempt that was interrupted or failed, has its record
\* (oldKey,newKey) in the backup file.  Stated for the first two invocations
\* on the repo, before which no Revert can have changed the store.
C12_BackupComplete ==
  \A p \in Procs :
    (ApplyReturnsNil(p) /\ snap[p].version = "8" /\ runs <= 2) =>
      \A k \in Keys :
        (disk0.blocks[k] # None /\ f(k) # k) =>
          Swap(k, f(k)) \in Range(backup.lines)

\* C13: from the state a failed Apply leaves behind (version "8", the backup
\* file in place with the records that were logged), an explicit Revert in which
\* nothing fails is carried out: it does not return an error.  (The other
\* recovery path, the rerun of Apply, is the subject of C11.)
C13_RevertRecovers ==
  \A p \in Procs :
    (/\ op[p] = "Revert" /\ pc[p] = "unlock"
     /\ snap[p].version = "8" /\ snap[p].backup.lines # <<>>
     /\ fsnap[p] = faults) => ret[p] = "ok"

\* the Revert has passed its version check and opened the backup file
Replaying(p) ==
  /\ op[p] = "Revert"
  /\ pc[p] \in {"running", "runret", "rclose", "remove", "dsclose", "unlock"}
  /\ fOpen[p] \/ pc[p] \in {"remove", "dsclose", "unlock"}
  /\ snap[p].version = "9"

WfLines(ls) == SelectSeq(ls, WellFormed)
HasBadLine(ls) == \E i \in 1 .. Len(ls) : ~WellFormed(ls[i])

\* every record of the file can be undone: its new key is in the store and
\* no other record names it
Undoable(ls, b) ==
  \A i \in 1 .. Len(ls) :
    WellFormed(ls[i]) =>
      /\ b[ls[i][2]] # None
      /\ \A j \in 1 .. Len(ls) : (WellFormed(ls[j]) /\ ls[j][2] = ls[i][2]) => j = i

\* the inverse swaps the workers have taken from unswapCh: done or under way
Taken(p) ==
  total[p] \cup {Swap(wk[p][w].old, wk[p][w].new) : w \in {v \in Workers : wk[p][v].st # "idle"}}

\* C14: in an 8-to-9 Revert, the records sent to the inverse-swap stage are
\* the well-formed lines the scanner has read, in file order, a line that
\* does not split into exactly 2 fields being left out: the queue holds the
\* latest of them and the workers have taken exactly the earlier ones; and a
\* Revert in which nothing fails, on a file with a bad line whose records can
\* all be undone, returns nil with version "8" and every record undone.
C14_LenientParsing ==
  \A p \in Procs :
    Replaying(p) =>
      LET ls == snap[p].backup.lines
          wf == WfLines(SubSeq(ls, 1, scanPos[p]))
          n  == Len(wf) - Len(unswapCh[p])
      IN /\ n >= 0
         /\ unswapCh[p] = SubSeq(wf, n + 1, Len(wf))
         /\ nErrors[p] = 0 =>
              Taken(p) = {Swap(wf[i][2], wf[i][1]) : i \in 1 .. n}
         /\ (pc[p] = "unlock" /\ fsnap[p] = faults /\ HasBadLine(ls)
               /\ Undoable(ls, snap[p].blocks)) =>
              /\ ret[p] = "ok"
              /\ version = "8"
              /\ \A i \in 1 .. Len(ls) :
                   WellFormed(ls[i]) =>
                     /\ blocks[ls[i][1]] = snap[p].blocks[ls[i][2]]
                     /\ blocks[ls[i][2]] = None

\* a Revert returns nil on a file with a line without a comma between two
\* records, both of which it has undone
C14_Witness ==
  \E p \in Procs :
    /\ op[p] = "Revert" /\ pc[p] = "unlock" /\ ret[p] = "ok"
    /\ snap[p].backup.lines = <<Swap("c1a", "mh1"), <<"c1a">>, Swap("c2", "mh2")>>
    /\ blocks["c1a"] = "v1" /\ blocks["c2"] = "v2"
    /\ blocks["mh1"] = None /\ blocks["mh2"] = None
    /\ version = "8"

\* every well-formed record of the file has been read and undone
AllUndone(p, ls) ==
  /\ scanPos[p] = Len(ls)
  /\ unswapCh[p] = <<>>
  /\ nErrors[p] = 0
  /\ \A i \in 1 .. Len(ls) :
       WellFormed(ls[i]) => Swap(ls[i][2], ls[i][1]) \in total[p]

\* C15: the backup file an invocation found when it started is gone only if
\* the invocation is a Revert that has applied the inverse swap of every
\* record of the file and has written version "8"; while an Apply runs and
\* while a Revert returns an error the file is in place.
C15_BackupDeletedOnlyAfterRevert ==
  \A p \in Procs :
    (Running(p) /\ Family(op[p]) = "8-to-9" /\ snap[p].backup.exists) =>
      /\ ~backup.exists =>
           /\ op[p] = "Revert"
           /\ ret[p] = "ok"
           /\ version = "8"
           /\ AllUndone(p, snap[p].backup.lines)
      /\ (op[p] = "Apply" \/ ret[p] \notin {None, "ok"}) => backup.exists

\* C16: when an 8-to-9 Revert returns nil, the version marker is "8" and
\* the backup file does not exist.
C16_SuccessfulRevertRemovedBackup ==
  \A p \in Procs :
    (op[p] = "Revert" /\ pc[p] = "unlock" /\ ret[p] = "ok") =>
      /\ version = "8"
      /\ ~backup.exists

IsPrefix(a, b) == Len(a) <= Len(b) /\ SubSeq(b, 1, Len(a)) = a

\* C17: in every state of an 8-to-9 Apply, up to its return, with success or
\* with an error, the backup file holds the content it had when the Apply
\* started as an unchanged prefix, followed by records of swaps of this
\* Apply only; a file that existed still exists; and no step taken while an
\* Apply runs changes the file otherwise than by adding lines at its end.
C17_AppendIfExists ==
  /\ [](\A p \in Procs :
          (op[p] = "Apply" /\ Running(p)) =>
            /\ IsPrefix(snap[p].backup.lines, backup.lines)
            /\ snap[p].backup.exists => backup.exists
            /\ Range(NewLines(p)) \subseteq total[p])
  /\ [][(\E p \in Procs : op[p] = "Apply" /\ Running(p)) =>
          (IsPrefix(backup.lines, backup'.lines)
             /\ (backup.exists => backup'.exists))]_vars

\* an Apply that found records in the backup file has added a record
C17_Witness ==
  \E p \in Procs :
    /\ op[p] = "Apply" /\ pc[p] = "unlock"
    /\ snap[p].backup.lines # <<>>
    /\ Len(backup.lines) > Len(snap[p].backup.lines)
    /\ IsPrefix(snap[p].backup.lines, backup.lines)

\* C18: while the main function of an 8-to-9 Apply flushes the buffer of the
\* backup log or closes the file, on the success path and on every error
\* path, the writer goroutine has no record left to append to that buffer;
\* and once the buffer has been flushed no record is appended to it.
C18_SingleWriter ==
  \A p \in Procs :
    op[p] = "Apply" =>
      /\ pc[p] \in {"flush", "fclose"} =>
           ~(~writingDone[p] /\ swapCh[p] # <<>>)
      /\ pc[p] \in {"fclose", "dsclose", "unlock"} => buf[p] = <<>>

\* C19: in every state of an 8-to-9 Revert started at version "9" in which
\* the version marker is "8", the scanner has read the backup file to its
\* end and the inverse swap of every well-formed record has been applied; in
\* particular a Revert whose scanner stopped on an error before the end of
\* the file has not written the version.
C19_VersionAfterLogExhausted ==
  \A p \in Procs :
    (op[p] = "Revert" /\ Running(p) /\ snap[p].version = "9" /\ version = "8")
      => AllUndone(p, snap[p].backup.lines)

\* entry e of the source of a transfer is in the source or, under its
\* rewritten key, in the destination
Kept(e, from, to, fpre, tpre) ==
  \/ e \in from
  \/ <<NewKey(tpre \o SubSeq(e[1], Len(fpre) + 1, Len(e[1]))), e[2]>> \in to

\* C20: in every state of a 1-to-2 Apply or Revert, before, during and after
\* transferBlocks, also after a failure at a Get, a Put or a Delete and after
\* a crash, every entry (K, V) the source held under the prefix when the
\* invocation started is in the source under K with value V or in the
\* destination under the rewritten key with value V, and so is, in every
\* state at all, every entry the leveldb store held under "/b/" initially;
\* in every state of an 8-to-9 Apply every key K that held V at its start
\* holds V or f(K) holds V, and in every state at all every value of the
\* initial /blocks namespace is held under a key of the same multihash.
C20_NoEntryLost ==
  /\ \A p \in Procs :
       (Running(p) /\ op[p] = "Apply12") =>
         \A e \in Moved(snap[p].ldb, PrefB) : Kept(e, ldb, fds, PrefB, <<>>)
  /\ \A p \in Procs :
       (Running(p) /\ op[p] = "Revert12") =>
         \A e \in Moved(snap[p].fds, <<>>) : Kept(e, fds, ldb, <<>>, PrefB)
  /\ \A e \in Moved(disk0.ldb, PrefB) : Kept(e, ldb, fds, PrefB, <<>>)
  /\ \A p \in Procs :
       (Running(p) /\ op[p] = "Apply") =>
         \A k \in Keys :
           snap[p].blocks[k] # None =>
             \/ blocks[k] = snap[p].blocks[k]
             \/ blocks[f(k)] = snap[p].blocks[k]
  /\ \A k \in Keys :
       disk0.blocks[k] # None =>
         \E k2 \in Keys : f(k2) = f(k) /\ blocks[k2] = disk0.blocks[k]

\* a transfer has failed with one entry in both stores (put, not yet
\* deleted) while another entry is still in the source only
C20_Witness ==
  \E p \in Procs :
    /\ op[p] = "Apply12" /\ pc[p] = "return" /\ ret[p] = "TransformIOError"
    /\ snap[p].ldb = LdbOf({KeyBX, KeyBY, KeyC})
    /\ \E k \in {KeyBX, KeyBY} :
         /\ DsHas(ldb, k)
         /\ DsHas(fds, NewKey(NKey(k, PrefB, <<>>)))
    /\ \E k \in {KeyBX, KeyBY} :
         /\ DsHas(ldb, k)
         /\ ~DsHas(fds, NewKey(NKey(k, PrefB, <<>>)))

====
